---- MODULE Spec2Model ----
(***************************************************************************)
(* Account security and session subsystem of the learning platform:       *)
(*   - AuthService.login / refreshAccessToken / logout over the users and  *)
(*     refresh_tokens tables (src/src/auth/auth.service.ts),               *)
(*   - the express-rate-limit limiters of rate-limit.middleware.ts.        *)
(* Every await on the database is one atomic step of a request; the code   *)
(* between two awaits runs with the step that follows it.  Time is counted *)
(* in seconds, the granularity of the iat claim of a signed token.         *)
(***************************************************************************)
EXTENDS Integers, Sequences, FiniteSets, TLC

VARIABLES
    now,            \* wall clock, seconds
    ticks,          \* number of clock advances so far
    users,          \* users table: id -> row
    refreshTokens,  \* refresh_tokens table: sequence of rows, insertion order
    pc,             \* per request slot: position inside its handler
    req,            \* per request slot: the handler's local variables
    last,           \* the call that finished most recently and its outcome
    guesses,        \* per account: failed comparisons since the last reset
    streak,         \* per account: failed-login increments since the last reset
    lockTime,       \* per account: the lockedUntil written when it was last locked
    route,          \* the rate-limited route the client IP is calling
    hits,           \* MemoryStore client of that route's limiter for the IP
    rl,             \* per HTTP slot: request in flight behind the limiter
    win,            \* the IP's current window, counted independently
    peer,           \* the same client and window in a second server process
    verdict,        \* the limiter's decision on the latest arrival
    device,         \* per account: the devices its requests have come from
    guard,          \* the latest call of DeviceGuard.canActivate
    accounts        \* users table: the rows inserted by UsersService.create

authVars == <<users, refreshTokens, pc, req, last, guesses, streak, lockTime>>
rateVars == <<route, hits, rl, win, peer, verdict>>
deviceVars == <<device, guard>>
regVars == <<accounts>>
vars == <<now, ticks, users, refreshTokens, pc, req, last, guesses, streak,
          lockTime, route, hits, rl, win, peer, verdict, device, guard, accounts>>

----------------------------------------------------------------------------
(* Bounds of the model *)
MaxTicks   == 1
MaxRows    == 2
MaxGuesses == 6
MaxEvents  == 3     \* clock advances plus refresh tokens persisted or due
MaxRefunds == 2     \* hits taken back from the counter of one window
MaxChanges == 7     \* device changes of one account

(* Program constants, in seconds *)
LockDuration  == 30 * 60
AccessExpiry  == 15 * 60
RefreshExpiry == 7 * 24 * 60 * 60
LockThreshold == 5

Null     == -1
Procs    == {"p1", "p2"}
Slots    == {"s1", "s2"}
Classes  == {"login", "register", "strict"}
UserIds  == {"u1", "u2"}
Emails   == UserIds \cup {"nobody"}
NoToken  == [sub |-> "none", iat |-> Null, type |-> "none"]
BadToken == [sub |-> "garbage", iat |-> Null, type |-> "garbage"]

----------------------------------------------------------------------------
(* Tokens.  jwt.sign is deterministic: HS256 over {sub, type, iat, exp}    *)
(* with iat the current second, so a refresh token is its (sub, iat).      *)
SignRefresh(uid, t) == [sub |-> uid, iat |-> t, type |-> "refresh"]

(* the access token: {sub, email, roles, iat, exp}, never the same string  *)
(* as a refresh token                                                      *)
SignAccess(uid, t) == [sub |-> uid, iat |-> t, type |-> "access"]

JwtExp(tok) ==
    tok.iat + (IF tok.type = "access" THEN AccessExpiry ELSE RefreshExpiry)

(* JWT_SECRET and JWT_REFRESH_SECRET are set by the deployment; with one   *)
(* value for both, a token signed with either passes verify with the other *)
SharedSecret == TRUE

(* jwtService.verify: signature and exp; jsonwebtoken rejects at now >= exp *)
VerifyRefresh(tok, t) ==
    /\ tok # BadToken
    /\ tok # NoToken
    /\ tok.type = "access" => SharedSecret
    /\ t < JwtExp(tok)

(* a correctly signed token of an account that has no persisted row: the  *)
(* server never signed at second -1                                        *)
StrayToken == [sub |-> "u1", iat |-> 0 - 1, type |-> "refresh"]

RowIds == 1..Len(refreshTokens)

StoredTokens == {refreshTokens[i].token : i \in RowIds}

(* a lookup that leaves the token out of the WHERE clause *)
FindStoredAnyToken(tok, uid) ==
    {i \in RowIds : /\ refreshTokens[i].userId = uid
                    /\ refreshTokens[i].isRevoked = FALSE}

(* a lookup that leaves isRevoked out of the WHERE clause *)
FindStoredRevokedToo(tok, uid) ==
    {i \in RowIds : /\ refreshTokens[i].token = tok
                    /\ refreshTokens[i].userId = uid}

(* refreshTokensRepository.findOne({token, userId, isRevoked: false}) *)
FindStored(tok, uid) ==
    {i \in RowIds : /\ refreshTokens[i].token = tok
                    /\ refreshTokens[i].userId = uid
                    /\ refreshTokens[i].isRevoked = FALSE}

(* usersService.findByEmail: the email of the row with id u is u *)
FindByEmail(email) == IF email \in UserIds THEN email ELSE "none"

(* the locals of a call under way: the handler, the account or email it is *)
(* about, whether the password matched, the instance read, the token       *)
(* presented, the number of the failed attempt, whether an overlapping     *)
(* call has returned tokens, and the failedLoginAttempts the instance had  *)
(* when it was read                                                        *)
NoReq == [op |-> "none", uid |-> "none", pwdOk |-> FALSE,
          inst |-> [lockedUntil |-> Null, isActive |-> FALSE],
          token |-> NoToken, n |-> 0, overlap |-> FALSE, counter |-> 0]
(* what a finished call leaves behind: the outcome, the token returned (if  *)
(* any), the account a verified token or a logout names, the number of the *)
(* failed attempt, whether a call that overlapped this one in time and     *)
(* presented the same refresh token has returned tokens, and whether the   *)
(* call ended because one of its database queries failed                   *)
NoRes == [outcome |-> "none", token |-> NoToken, uid |-> "none", n |-> 0,
          overlap |-> FALSE, failed |-> FALSE]

(* the fields of the row read by findByEmail that login reads afterwards;  *)
(* failedLoginAttempts is read only after increment has refreshed it      *)
Instance(u) == [lockedUntil |-> users[u].lockedUntil,
                isActive |-> users[u].isActive]

(* A new request takes slot p1 when it is free and p2 otherwise: every     *)
(* schedule of at most two overlapping requests has this form.            *)
Free(p) == pc[p] = "idle" /\ (p = "p2" => pc["p1"] # "idle")

(* no call is under way *)
Quiet == \A q \in Procs : pc[q] = "idle"

Finish(p, r) ==
    /\ pc' = [pc EXCEPT ![p] = "idle"]
    /\ req' = [req EXCEPT ![p] = NoReq]
    /\ last' = r

----------------------------------------------------------------------------
InitAuth ==
    /\ now = 0
    /\ ticks = 0
    /\ users \in {[u \in UserIds |->
                     [failedLoginAttempts |-> 0, lockedUntil |-> Null,
                      isActive |-> IF u = "u1" THEN TRUE ELSE a,
                      lastLogin |-> Null]] : a \in BOOLEAN}
    /\ refreshTokens = <<>>
    /\ pc = [p \in Procs |-> "idle"]
    /\ req = [p \in Procs |-> NoReq]
    /\ last = NoRes
    /\ guesses = [u \in UserIds |-> 0]
    /\ streak = [u \in UserIds |-> 0]
    /\ lockTime = [u \in UserIds |-> Null]
    /\ accounts = <<>>

(* MemoryStore client of a key that has not been seen yet *)
NoClient  == [totalHits |-> 0, resetTime |-> Null]
(* the window the store is counting in: when it began, how many requests   *)
(* arrived in it, how many of them were let through, and how many hits     *)
(* were taken back from its counter                                        *)
NoWindow  == [start |-> Null, arrivals |-> 0, allowed |-> 0, refunds |-> 0]
(* the latest arrival: its method, its number within its window (0 when   *)
(* the limiter did not count it), when it arrived, when the window in      *)
(* force before it had begun, the hits taken back from that window's       *)
(* counter so far, the limiter's decision, and whether the store's         *)
(* increment failed                                                        *)
NoVerdict == [method |-> "none", seq |-> 0, at |-> Null, start |-> Null,
              refunds |-> 0, allowed |-> FALSE, error |-> FALSE]

InitRate(r) ==
    /\ route = r
    /\ hits = NoClient
    /\ rl = [s \in Slots |-> "idle"]
    /\ win = NoWindow
    /\ peer = [hits |-> NoClient, win |-> NoWindow]
    /\ verdict = NoVerdict

(* request.user as the guard finds it: absent when no guard before it has  *)
(* authenticated the request, else the token's claims                      *)
RequestUsers ==
    {[present |-> FALSE, id |-> "none"], [present |-> TRUE, id |-> "none"]}
        \cup {[present |-> TRUE, id |-> a] : a \in UserIds}

Fingerprints == {"d1", "d2", "d3"}

(* the subscription of each account: u1 pays, u2 does not *)
Tier(a) == IF a = "u1" THEN "paid" ELSE "free"

(* the devices an account's guarded requests have come from: the one in    *)
(* use, how often the device has changed, and the device that the latest   *)
(* change from the lock attempt on has asked for                           *)
NoDevice == [inUse |-> "none", changes |-> 0, requested |-> "none"]

NoGuard == [required |-> FALSE, account |-> "none", device |-> "none",
            change |-> 0, result |-> "none"]

(* DeviceGuard keeps no state of its own *)
InitDevice ==
    /\ device = [a \in UserIds |-> NoDevice]
    /\ guard = NoGuard

Init == InitAuth /\ InitRate("none") /\ InitDevice

(* requests that are past the password check, or on their way through    *)
(* register, and will persist a token                                      *)
Storing == {q \in Procs : \/ pc[q] \in {"login_check", "login_store"}
                          \/ pc[q] = "register_store"
                          \/ pc[q] \in {"create_find", "create_insert"}
                               /\ req[q].op = "register"}

Events == ticks + Len(refreshTokens) + Cardinality(Storing)

(* time passes: by one second or by one of the durations the code uses,   *)
(* at most `most` times                                                    *)
Advance(jumps, most) ==
    /\ ticks < most
    /\ Events < MaxEvents
    /\ \E d \in jumps : now' = now + d
    /\ ticks' = ticks + 1
    /\ UNCHANGED <<authVars, rateVars, deviceVars, regVars>>

Tick(jumps) == Advance(jumps, MaxTicks)

----------------------------------------------------------------------------
(* AuthService.login *)

(* line 61: no row has the email *)
UnknownEmail == "InvalidCredentials"

(* a wrong password answered in words of its own *)
WrongPasswordTelling == "WrongPassword"

(* line 80: the password does not match and the threshold is not reached *)
WrongPassword == "InvalidCredentials"

(* what the caller sees of an exception thrown by login: every one is an   *)
(* UnauthorizedException, status 401, with the message of its throw        *)
Response(outcome) ==
    [status |-> 401,
     message |-> CASE outcome = "InvalidCredentials" -> "Invalid email or password"
                   [] outcome = "AccountLockedNow" ->
                         "Account locked due to too many failed attempts"
                   [] outcome = "AccountLocked" -> "Account is locked. Try again later"
                   [] outcome = "AccountDisabled" -> "Account is disabled"
                   [] OTHER -> outcome]

(* lines 59-68: findByEmail, then bcrypt.compare against the row read; a    *)
(* login that goes on to the increment carries the failedLoginAttempts     *)
(* its instance has from this read                                         *)
LoginFindStep(p, email, ok) ==
    /\ Free(p)
    /\ LET u == FindByEmail(email) IN
       IF u = "none"
       THEN /\ Finish(p, [NoRes EXCEPT !.outcome = UnknownEmail])
            /\ UNCHANGED guesses
       ELSE /\ ok \/ guesses[u] < MaxGuesses
            /\ ok => /\ Len(refreshTokens) + Cardinality(Storing) < MaxRows
                     /\ Events < MaxEvents
            /\ pc' = [pc EXCEPT ![p] = IF ok THEN "login_check" ELSE "login_increment"]
            /\ req' = [req EXCEPT ![p] = [op |-> "login", uid |-> u, pwdOk |-> ok,
                                          inst |-> Instance(u), token |-> NoToken,
                                          n |-> 0, overlap |-> FALSE,
                                          counter |-> IF ok THEN 0
                                                      ELSE users[u].failedLoginAttempts]]
            /\ UNCHANGED last
            /\ guesses' = [guesses EXCEPT ![u] = IF ok THEN @ ELSE @ + 1]
    /\ UNCHANGED <<deviceVars, regVars, now, ticks, users, refreshTokens, streak, lockTime>>

(* the step of a call made on the service alone: no limiter in front *)
LoginFind(p, email, ok) == LoginFindStep(p, email, ok) /\ UNCHANGED rateVars

(* the threshold test off by one: the lock comes with the 6th failure *)
LockReachedLate(n) == n > LockThreshold

(* line 74: the lock threshold on the instance's counter *)
LockReached(n) == n >= LockThreshold

(* an increment computed in the application from the value findByEmail     *)
(* read and saved back                                                     *)
IncrementedInstance(p) == req[p].counter + 1

(* line 71: user.increment is UPDATE .. SET n = n + 1 RETURNING *: the     *)
(* database adds 1 to the value the row has when the statement runs        *)
Incremented(p) == users[req[p].uid].failedLoginAttempts + 1

(* lines 71-80: the increment, and on postgres the instance holds the row  *)
(* as it is after the increment                                            *)
LoginIncrementStep(p) ==
    /\ pc[p] = "login_increment"
    /\ LET u == req[p].uid
           n == Incremented(p)
       IN /\ users' = [users EXCEPT ![u].failedLoginAttempts = n]
          /\ streak' = [streak EXCEPT ![u] = @ + 1]
          /\ IF LockReached(n)
             THEN /\ pc' = [pc EXCEPT ![p] = "login_lock"]
                  /\ req' = [req EXCEPT ![p].inst = Instance(u),
                                         ![p].counter = 0,
                                         ![p].n = streak[u] + 1]
                  /\ UNCHANGED last
             ELSE Finish(p, [NoRes EXCEPT !.outcome = WrongPassword,
                                          !.n = streak[u] + 1])
    /\ UNCHANGED <<deviceVars, regVars, now, ticks, refreshTokens, guesses, lockTime>>

LoginIncrement(p) == LoginIncrementStep(p) /\ UNCHANGED rateVars

(* the lock test with the comparison turned round *)
IsLockedReversed(inst, t) == inst.lockedUntil # Null /\ t > inst.lockedUntil

(* line 84: the lock test, on the row as findByEmail read it *)
IsLocked(inst, t) == inst.lockedUntil # Null /\ t < inst.lockedUntil

(* lines 75-77: user.update({lockedUntil: now + 30 min}), then the error *)
LoginLockStep(p) ==
    /\ pc[p] = "login_lock"
    /\ LET u == req[p].uid IN
          /\ users' = [users EXCEPT ![u].lockedUntil = now + LockDuration]
          /\ lockTime' = [lockTime EXCEPT ![u] =
                            IF IsLocked(users[u], now) THEN @ ELSE now + LockDuration]
          /\ Finish(p, [NoRes EXCEPT !.outcome = "AccountLockedNow", !.n = req[p].n])
    /\ UNCHANGED <<deviceVars, regVars, now, ticks, refreshTokens, guesses, streak>>

LoginLock(p) == LoginLockStep(p) /\ UNCHANGED rateVars

(* the isActive test left out *)
IsDisabledNever(inst) == FALSE

(* line 89: the isActive test, on the row as findByEmail read it *)
IsDisabled(inst) == ~inst.isActive

(* a reset that forgets to clear the lock *)
ResetRowKeepLock(row, t) ==
    [row EXCEPT !.failedLoginAttempts = 0, !.lastLogin = t]

(* lines 94-98: user.update({failedLoginAttempts: 0, lockedUntil: null,    *)
(* lastLogin: new Date()}); lastLogin always differs, so the UPDATE is     *)
(* issued and writes the three columns                                     *)
ResetRow(row, t) ==
    [row EXCEPT !.failedLoginAttempts = 0, !.lockedUntil = Null, !.lastLogin = t]

(* lines 83-98: password was right: lock test, isActive test, then the reset *)
LoginCheckStep(p) ==
    /\ pc[p] = "login_check"
    /\ LET u == req[p].uid IN
       IF IsLocked(req[p].inst, now)
       THEN /\ Finish(p, [NoRes EXCEPT !.outcome = "AccountLocked"])
            /\ UNCHANGED <<users, guesses, streak, lockTime>>
       ELSE IF IsDisabled(req[p].inst)
       THEN /\ Finish(p, [NoRes EXCEPT !.outcome = "AccountDisabled"])
            /\ UNCHANGED <<users, guesses, streak, lockTime>>
       ELSE /\ users' = [users EXCEPT ![u] = ResetRow(users[u], now)]
            /\ guesses' = [guesses EXCEPT ![u] = 0]
            /\ streak' = [streak EXCEPT ![u] = 0]
            /\ lockTime' = [lockTime EXCEPT ![u] = Null]
            /\ pc' = [pc EXCEPT ![p] = "login_store"]
            /\ UNCHANGED <<req, last>>
    /\ UNCHANGED <<deviceVars, regVars, now, ticks, refreshTokens>>

LoginCheck(p) == LoginCheckStep(p) /\ UNCHANGED rateVars

(* lines 219-232: refreshTokensRepository.create *)
StoreRefreshToken(uid, tok, t) ==
    Append(refreshTokens, [userId |-> uid, token |-> tok,
                           expiresAt |-> t + RefreshExpiry,
                           isRevoked |-> FALSE, revokedReason |-> "null"])

(* lines 100-117: generateTokens, storeRefreshToken, return the pair *)
LoginStoreStep(p) ==
    /\ pc[p] = "login_store"
    /\ LET u == req[p].uid
           tok == SignRefresh(u, now)
       IN /\ refreshTokens' = StoreRefreshToken(u, tok, now)
          /\ Finish(p, [NoRes EXCEPT !.outcome = "Tokens", !.token = tok])
    /\ UNCHANGED <<deviceVars, regVars, now, ticks, users, guesses, streak, lockTime>>

LoginStore(p) == LoginStoreStep(p) /\ UNCHANGED rateVars

----------------------------------------------------------------------------
(* Users.isActive: no handler of the code writes the column; an account is *)
(* disabled by whoever administers the table                               *)
Deactivate(u) ==
    /\ users[u].isActive
    /\ users' = [users EXCEPT ![u].isActive = FALSE]
    /\ UNCHANGED <<deviceVars, regVars, now, ticks, refreshTokens, pc, req, last,
                   guesses, streak, lockTime, rateVars>>

----------------------------------------------------------------------------
(* AuthService.register and UsersService.create *)

(* emails that no row has at the start *)
NewEmails == {"n1"}

(* Users.id defaults to uuidv4(): the k-th inserted row gets the k-th id *)
NewId(k) == IF k = 1 THEN "a1" ELSE "a2"

AccountIds == {accounts[i].id : i \in 1..Len(accounts)}

(* a look-up that never finds the row, as one that compares the email in   *)
(* another spelling would                                                  *)
EmailTakenNever(email) == FALSE

(* usersRepository.findOne({where: {email}}) over the whole table *)
EmailTaken(email) ==
    \/ email \in UserIds
    \/ \E i \in 1..Len(accounts) : accounts[i].email = email

(* a users table without the unique index on email *)
EmailIndexPlain == FALSE

(* users.entity.ts: indexes [{fields: ['email'], unique: true}] and        *)
(* @Unique on the column, created by sequelize.sync()                      *)
EmailIndexUnique == TRUE

(* lines 29-32: findByEmail, ConflictException when a row has the email *)
RegisterFind(p, email) ==
    /\ Free(p)
    /\ Len(refreshTokens) + Cardinality(Storing) < MaxRows
    /\ Events < MaxEvents
    /\ IF EmailTaken(email)
       THEN Finish(p, [NoRes EXCEPT !.outcome = "Conflict"])
       ELSE /\ pc' = [pc EXCEPT ![p] = "create_find"]
            /\ req' = [req EXCEPT ![p] = [NoReq EXCEPT !.op = "register",
                                                       !.uid = email]]
            /\ UNCHANGED last
    /\ UNCHANGED <<deviceVars, regVars, now, ticks, users, refreshTokens,
                   guesses, streak, lockTime, rateVars>>

(* POST /users: UsersController.create calls UsersService.create, whose    *)
(* first await is the findOne of lines 22-28                               *)
UsersCreate(p, email) ==
    /\ Free(p)
    /\ IF EmailTaken(email)
       THEN Finish(p, [NoRes EXCEPT !.outcome = "Conflict"])
       ELSE /\ pc' = [pc EXCEPT ![p] = "create_insert"]
            /\ req' = [req EXCEPT ![p] = [NoReq EXCEPT !.op = "create",
                                                       !.uid = email]]
            /\ UNCHANGED last
    /\ UNCHANGED <<deviceVars, regVars, now, ticks, users, refreshTokens,
                   guesses, streak, lockTime, rateVars>>

(* users.service.ts lines 22-28, reached from register *)
CreateFind(p) ==
    /\ pc[p] = "create_find"
    /\ IF EmailTaken(req[p].uid)
       THEN Finish(p, [NoRes EXCEPT !.outcome = "Conflict"])
       ELSE /\ pc' = [pc EXCEPT ![p] = "create_insert"]
            /\ UNCHANGED <<req, last>>
    /\ UNCHANGED <<deviceVars, regVars, now, ticks, users, refreshTokens,
                   guesses, streak, lockTime, rateVars>>

(* users.service.ts lines 30-42: bcrypt.hash, then the INSERT; the unique  *)
(* index makes the INSERT of a taken email fail with an error that no      *)
(* caller catches                                                          *)
CreateInsert(p) ==
    /\ pc[p] = "create_insert"
    /\ IF EmailIndexUnique /\ EmailTaken(req[p].uid)
       THEN /\ Finish(p, [NoRes EXCEPT !.outcome = "UniqueConstraintError"])
            /\ UNCHANGED accounts
       ELSE LET id == NewId(Len(accounts) + 1) IN
            /\ accounts' = Append(accounts, [id |-> id, email |-> req[p].uid])
            /\ IF req[p].op = "register"
               THEN /\ pc' = [pc EXCEPT ![p] = "register_store"]
                    /\ req' = [req EXCEPT ![p].uid = id]
                    /\ UNCHANGED last
               ELSE Finish(p, [NoRes EXCEPT !.outcome = "Created", !.uid = id])
    /\ UNCHANGED <<deviceVars, now, ticks, users, refreshTokens,
                   guesses, streak, lockTime, rateVars>>

(* auth.service.ts lines 37-54: generateTokens, storeRefreshToken, return *)
RegisterStore(p) ==
    /\ pc[p] = "register_store"
    /\ LET id == req[p].uid
           tok == SignRefresh(id, now)
       IN /\ refreshTokens' = StoreRefreshToken(id, tok, now)
          /\ Finish(p, [NoRes EXCEPT !.outcome = "Tokens", !.token = tok,
                                     !.uid = id])
    /\ UNCHANGED <<deviceVars, regVars, now, ticks, users,
                   guesses, streak, lockTime, rateVars>>

----------------------------------------------------------------------------
(* AuthService.refreshAccessToken *)

Presentable == StoredTokens \cup {StrayToken, BadToken}

(* the access tokens a client may hold: login and register return one      *)
(* signed in the second of the refresh token stored with it, and a refresh *)
(* of the account may have returned one in the current second              *)
AccessTokens ==
    UNION {{SignAccess(refreshTokens[i].userId, refreshTokens[i].token.iat),
            SignAccess(refreshTokens[i].userId, now)} : i \in RowIds}

(* what a caller may put in refreshTokenDto.refreshToken *)
Presented == Presentable \cup AccessTokens

(* the tokens the server has issued, and a garbled one *)
Issued == StoredTokens \cup AccessTokens \cup {BadToken}

(* a refresh that treats a verified token without a live row as reuse and *)
(* revokes every live row of the account                                   *)
RefreshFindRevokeAll(p, tok) ==
    /\ Free(p)
    /\ tok \in Presentable
    /\ LET verified == VerifyRefresh(tok, now)
           rows == IF verified THEN FindStored(tok, tok.sub) ELSE {}
       IN IF rows # {}
          THEN /\ pc' = [pc EXCEPT ![p] = "refresh_user"]
               /\ req' = [req EXCEPT ![p] =
                            [NoReq EXCEPT !.op = "refresh", !.uid = tok.sub, !.token = tok]]
               /\ UNCHANGED <<last, refreshTokens>>
          ELSE /\ Finish(p, [NoRes EXCEPT !.outcome = "InvalidRefreshToken",
                                          !.uid = IF verified THEN tok.sub ELSE "none"])
               /\ refreshTokens' = [i \in RowIds |->
                      IF verified /\ refreshTokens[i].userId = tok.sub
                                  /\ ~refreshTokens[i].isRevoked
                      THEN [refreshTokens[i] EXCEPT !.isRevoked = TRUE,
                                                    !.revokedReason = "reuse-detected"]
                      ELSE refreshTokens[i]]
    /\ UNCHANGED <<deviceVars, regVars, now, ticks, users, guesses, streak, lockTime, rateVars>>

(* lines 121-138: verify, findOne(token, userId, isRevoked: false), expiry *)
RefreshFind(p, tok) ==
    /\ Free(p)
    /\ tok \in Presented
    /\ LET verified == VerifyRefresh(tok, now)
           rows == IF verified THEN FindStored(tok, tok.sub) ELSE {}
           ok == /\ rows # {}
                 /\ ~(now > refreshTokens[CHOOSE i \in rows : \A j \in rows : i <= j].expiresAt)
       IN IF ok
          THEN /\ pc' = [pc EXCEPT ![p] = "refresh_user"]
               /\ req' = [req EXCEPT ![p] =
                            [NoReq EXCEPT !.op = "refresh", !.uid = tok.sub, !.token = tok]]
               /\ UNCHANGED last
          ELSE Finish(p, [NoRes EXCEPT !.outcome = "InvalidRefreshToken",
                                       !.uid = IF verified THEN tok.sub ELSE "none"])
    /\ UNCHANGED <<deviceVars, regVars, now, ticks, users, refreshTokens, guesses, streak, lockTime, rateVars>>

(* the refresh returns: lines 159-163.  A call still in flight with the    *)
(* same token learns that an overlapping call has returned tokens          *)
ReturnAccess(p) ==
    /\ pc' = [pc EXCEPT ![p] = "idle"]
    /\ req' = [q \in Procs |->
                 IF q = p THEN NoReq
                 ELSE IF pc[q] = "refresh_user" /\ req[q].token = req[p].token
                      THEN [req[q] EXCEPT !.overlap = TRUE]
                      ELSE req[q]]
    /\ last' = [NoRes EXCEPT !.outcome = "AccessToken", !.token = req[p].token,
                             !.uid = req[p].uid, !.overlap = req[p].overlap]

(* a rotating refresh: one conditional UPDATE .. WHERE isRevoked = false    *)
(* revokes the presented row, and the call fails when it revoked nothing   *)
RefreshUserRotating(p) ==
    /\ pc[p] = "refresh_user"
    /\ LET tok == req[p].token
           rows == FindStored(tok, tok.sub)
       IN IF rows = {}
          THEN /\ Finish(p, [NoRes EXCEPT !.outcome = "InvalidRefreshToken", !.uid = tok.sub])
               /\ UNCHANGED refreshTokens
          ELSE /\ refreshTokens' = [i \in RowIds |->
                      IF i \in rows
                      THEN [refreshTokens[i] EXCEPT !.isRevoked = TRUE,
                                                    !.revokedReason = "rotated"]
                      ELSE refreshTokens[i]]
               /\ ReturnAccess(p)
    /\ UNCHANGED <<deviceVars, regVars, now, ticks, users, guesses, streak, lockTime, rateVars>>

(* lines 140-163: findById, sign a new access token, return it *)
RefreshUser(p) ==
    /\ pc[p] = "refresh_user"
    /\ ReturnAccess(p)
    /\ UNCHANGED <<deviceVars, regVars, now, ticks, users, refreshTokens, guesses, streak, lockTime, rateVars>>

----------------------------------------------------------------------------
(* an update that flips the flag and names the reason after the flag *)
RevokedFlipped(row) ==
    [row EXCEPT !.isRevoked = ~@,
                !.revokedReason = IF @ = "null" THEN "logout" ELSE "null"]

(* line 172: the values logout writes, {isRevoked: true, revokedReason:    *)
(* 'logout'}                                                               *)
Revoked(row) == [row EXCEPT !.isRevoked = TRUE, !.revokedReason = "logout"]

(* the rows of the WHERE clause of logout that are revoked already *)
RevokedBefore(uid, tok) ==
    {i \in RowIds : /\ refreshTokens[i].userId = uid
                    /\ refreshTokens[i].token = tok
                    /\ refreshTokens[i].isRevoked}

(* a logout whose WHERE clause names the token alone *)
LogoutAnyOwner(p, uid, tok) ==
    /\ Free(p)
    /\ tok \in Presented
    /\ refreshTokens' = [i \in RowIds |->
            IF refreshTokens[i].token = tok
            THEN Revoked(refreshTokens[i])
            ELSE refreshTokens[i]]
    /\ Finish(p, [NoRes EXCEPT !.outcome = "LoggedOut", !.uid = uid,
                               !.n = Cardinality(RevokedBefore(uid, tok))])
    /\ UNCHANGED <<deviceVars, regVars, now, ticks, users, guesses, streak, lockTime, rateVars>>

(* AuthService.logout: UPDATE refresh_tokens SET isRevoked, revokedReason  *)
(* WHERE userId = .. AND token = ..                                        *)
Logout(p, uid, tok) ==
    /\ Free(p)
    /\ tok \in Presented
    /\ refreshTokens' = [i \in RowIds |->
            IF refreshTokens[i].userId = uid /\ refreshTokens[i].token = tok
            THEN Revoked(refreshTokens[i])
            ELSE refreshTokens[i]]
    /\ Finish(p, [NoRes EXCEPT !.outcome = "LoggedOut", !.uid = uid,
                               !.n = Cardinality(RevokedBefore(uid, tok))])
    /\ UNCHANGED <<deviceVars, regVars, now, ticks, users, guesses, streak, lockTime, rateVars>>

----------------------------------------------------------------------------
(* Rate limiting: rate-limit.middleware.ts, mounted by AuthModule.configure *)
(* windowMs is held in seconds, the unit of the clock                      *)
(* a login limiter that keeps the hit of every request *)
loginLimiterCountsAll ==
    [windowMs |-> 5 * 60, max |-> 5, skipSuccessfulRequests |-> FALSE]

loginLimiter ==
    [windowMs |-> 5 * 60, max |-> 5, skipSuccessfulRequests |-> TRUE]

registerLimiter ==
    [windowMs |-> 60 * 60, max |-> 3, skipSuccessfulRequests |-> FALSE]

strictLimiter ==
    [windowMs |-> 15 * 60, max |-> 10, skipSuccessfulRequests |-> FALSE]

globalLimiter ==
    [windowMs |-> 15 * 60, max |-> 100, skipSuccessfulRequests |-> FALSE]

(* a limiter that lets one request more through than configured *)
LimiterLax(c) ==
    LET l == CASE c = "global"   -> globalLimiter
               [] c = "login"    -> loginLimiter
               [] c = "register" -> registerLimiter
               [] OTHER          -> strictLimiter
    IN  [l EXCEPT !.max = l.max + 1]

(* auth/login, auth/register and auth/refresh each pass their own limiter; *)
(* the global limiter is mounted on the application                        *)
Limiter(c) ==
    CASE c = "global"   -> globalLimiter
      [] c = "login"    -> loginLimiter
      [] c = "register" -> registerLimiter
      [] OTHER          -> strictLimiter

(* A new request takes slot s1 when it is free and s2 otherwise. *)
SlotFree(s) == rl[s] = "idle" /\ (s = "s2" => rl["s1"] # "idle")

(* the key's window has run out, or the key has not been seen *)
Expired == hits.resetTime = Null \/ hits.resetTime <= now

(* the value store.increment(key) returns: a key whose window has run out  *)
(* starts again from 0                                                     *)
TotalHits == (IF Expired THEN 0 ELSE hits.totalHits) + 1

(* the middleware answers 429 when totalHits > max and calls next() if not *)
Passes == ~(TotalHits > Limiter(route).max)

(* The limiter middleware up to next() or the 429 answer: the store's      *)
(* increment, then the comparison with max.  The store lives in the memory *)
(* of the one process, and nothing is awaited between the two.             *)
Increment(method) ==
    LET l == Limiter(route)
        w == IF Expired THEN [NoWindow EXCEPT !.start = now] ELSE win
    IN  /\ Expired \/ hits.totalHits <= l.max
        /\ hits' = [totalHits |-> TotalHits,
                    resetTime |-> IF Expired THEN now + l.windowMs
                                  ELSE hits.resetTime]
        /\ win' = [w EXCEPT !.arrivals = @ + 1,
                            !.allowed = IF Passes THEN @ + 1 ELSE @]
        /\ verdict' = [method |-> method, seq |-> w.arrivals + 1, at |-> now,
                       start |-> win.start, refunds |-> w.refunds,
                       allowed |-> Passes, error |-> FALSE]

Arrive(s) ==
    /\ route \in Classes
    /\ SlotFree(s)
    /\ Increment("POST")
    /\ rl' = IF Passes THEN [rl EXCEPT ![s] = "handling"] ELSE rl
    /\ UNCHANGED <<deviceVars, regVars, now, ticks, route, peer, authVars>>

(* The response of a request that was let through is sent.  With           *)
(* skipSuccessfulRequests the hit of a response below 400 is taken back    *)
(* from the key's counter, whatever window the counter is in by then.      *)
(* the response is sent: with skipSuccessfulRequests, store.decrement(key)  *)
(* for a status below 400                                                  *)
Decrement(ok) ==
    LET refund == /\ Limiter(route).skipSuccessfulRequests
                  /\ ok
                  /\ hits.totalHits > 0
    IN  /\ refund => win.refunds < MaxRefunds
        /\ hits' = IF refund THEN [hits EXCEPT !.totalHits = @ - 1] ELSE hits
        /\ win' = IF refund THEN [win EXCEPT !.refunds = @ + 1] ELSE win

Respond(s, ok) ==
    /\ rl[s] = "handling"
    /\ Decrement(ok)
    /\ rl' = [rl EXCEPT ![s] = "idle"]
    /\ UNCHANGED <<deviceVars, regVars, now, ticks, route, peer, verdict, authVars>>

(* Each server process builds its own limiters, and a limiter built        *)
(* without a store option keeps its clients in the memory of its process.  *)
(* The load balancer sends the client's next requests to the other         *)
(* process.  On a route whose responses give hits back it does so while no *)
(* request is in flight, so that a hit is given back where it was counted. *)
Balance ==
    /\ route \in Classes
    /\ Limiter(route).skipSuccessfulRequests => \A s \in Slots : rl[s] = "idle"
    /\ hits' = peer.hits
    /\ win' = peer.win
    /\ peer' = [hits |-> hits, win |-> win]
    /\ UNCHANGED <<deviceVars, regVars, now, ticks, route, rl, verdict, authVars>>

----------------------------------------------------------------------------
(* POST /auth/login as the client sees it: loginLimiter, then               *)
(* AuthController.login.  The limiter's increment touches only the store    *)
(* and the response's decrement follows the handler's last step, so the     *)
(* first is taken with the handler's first step and the second with its     *)
(* last.                                                                    *)
SlotOf(p) == IF p = "p1" THEN "s1" ELSE "s2"

PostLogin(p, email, ok) ==
    /\ route = "login"
    /\ Increment("POST")
    /\ UNCHANGED <<route, peer>>
    /\ IF Passes
       THEN /\ LoginFindStep(p, email, ok)
            /\ rl' = [rl EXCEPT ![SlotOf(p)] =
                                  IF pc'[p] = "idle" THEN "idle" ELSE "handling"]
       ELSE /\ Free(p)
            /\ Finish(p, [NoRes EXCEPT !.outcome = "TooManyRequests"])
            /\ UNCHANGED <<deviceVars, regVars, now, ticks, users, refreshTokens, guesses, streak, lockTime, rl>>

(* the response of the request that p serves is sent when p has finished *)
Answered(p) ==
    IF pc'[p] = "idle"
    THEN /\ Decrement(last'.outcome = "Tokens")
         /\ rl' = [rl EXCEPT ![SlotOf(p)] = "idle"]
         /\ UNCHANGED <<route, peer, verdict>>
    ELSE UNCHANGED rateVars

PostLoginIncrement(p) == route = "login" /\ LoginIncrementStep(p) /\ Answered(p)

PostLoginLock(p) == route = "login" /\ LoginLockStep(p) /\ Answered(p)

PostLoginCheck(p) == route = "login" /\ LoginCheckStep(p) /\ Answered(p)

PostLoginStore(p) == route = "login" /\ LoginStoreStep(p) /\ Answered(p)

----------------------------------------------------------------------------
(* globalLimiter, mounted by app.use in bootstrap: every request of the    *)
(* application passes it                                                   *)
Methods == {"GET", "POST", "DELETE"}

(* a limiter that skips nothing *)
SkipNothing(method) == FALSE

(* skip: (req) => req.method === 'GET' *)
Skip(method) == method = "GET"

(* a skipped request goes to next() before the store is touched *)
GlobalArrive(s, method) ==
    /\ route = "global"
    /\ SlotFree(s)
    /\ IF Skip(method)
       THEN /\ verdict' = [NoVerdict EXCEPT !.method = method, !.at = now,
                                            !.allowed = TRUE]
            /\ rl' = [rl EXCEPT ![s] = "handling"]
            /\ UNCHANGED <<hits, win>>
       ELSE /\ Increment(method)
            /\ rl' = IF Passes THEN [rl EXCEPT ![s] = "handling"] ELSE rl
    /\ UNCHANGED <<deviceVars, regVars, now, ticks, route, peer, authVars>>

----------------------------------------------------------------------------
(* A store that cannot be reached: a query of the database rejects, or the *)
(* increment of the limiter's store does                                   *)

(* a call that takes the failed query for a success *)
RejectedOpen(op) == IF op = "refresh" THEN "AccessToken" ELSE "Tokens"

(* what becomes of a call one of whose awaits rejects: refreshAccessToken  *)
(* catches every error and throws UnauthorizedException('Invalid refresh   *)
(* token') (lines 121, 164-166); login has no catch, the error leaves the  *)
(* handler and the request is answered with an error                       *)
Rejected(op) == IF op = "refresh" THEN "InvalidRefreshToken" ELSE "InternalError"

(* the query that request p makes next rejects: the first query of a new   *)
(* login or refresh, or the next one of a call in flight                   *)
QueryFails(p, op) ==
    /\ IF pc[p] = "idle"
       THEN Free(p) /\ op \in {"login", "refresh"}
       ELSE op = req[p].op
    /\ Finish(p, [NoRes EXCEPT !.outcome = Rejected(op), !.failed = TRUE])
    /\ UNCHANGED <<deviceVars, regVars, now, ticks, users, refreshTokens,
                   guesses, streak, lockTime, rateVars>>

(* no limiter sets passOnStoreError, so the error of the store goes to     *)
(* next(error) and the request is answered with it                         *)
PassOnStoreError == FALSE

(* the increment of the limiter's store rejects *)
ArriveFails(s) ==
    /\ route \in Classes
    /\ SlotFree(s)
    /\ verdict' = [NoVerdict EXCEPT !.method = "POST", !.at = now,
                                    !.error = TRUE,
                                    !.allowed = PassOnStoreError]
    /\ rl' = IF PassOnStoreError THEN [rl EXCEPT ![s] = "handling"] ELSE rl
    /\ UNCHANGED <<hits, win>>
    /\ UNCHANGED <<deviceVars, regVars, now, ticks, route, peer, authVars>>

----------------------------------------------------------------------------
(* CONSTANTS.DEVICE *)
MAX_DEVICES_PAID == 5
WARNING_ATTEMPT  == 3
LOCK_ATTEMPT     == 6

(* a guard that lets nobody through *)
canActivateNever(requireDevice, user) == "Forbidden"

(* a guard that takes every request of an account that has a device in    *)
(* use for a change of device and turns it away                            *)
canActivateFirstOnly(requireDevice, user) ==
    IF ~requireDevice
    THEN "Allow"
    ELSE IF ~user.present \/ user.id = "none"
         THEN "Forbidden"
         ELSE IF device[user.id].inUse # "none" THEN "Forbidden" ELSE "Allow"

(* DeviceGuard.canActivate: true is "Allow", the ForbiddenException        *)
(* 'Device validation failed' is "Forbidden"                               *)
canActivate(requireDevice, user) ==
    IF ~requireDevice
    THEN "Allow"
    ELSE IF ~user.present \/ user.id = "none"
         THEN "Forbidden"
         ELSE "Allow"

(* the presented fingerprint is a change of device when the account has a  *)
(* device in use and it is another one                                     *)
IsChange(a, f) == device[a].inUse # "none" /\ device[a].inUse # f

(* A request reaches a handler behind DeviceGuard.  The guard reads the    *)
(* handler's 'requireDevice' metadata and request.user and nothing else;   *)
(* what the request's device is, and the how-manieth change of device it   *)
(* makes for its account, is recorded beside the guard's answer.           *)
CanActivate(requireDevice, user, f) ==
    LET result == canActivate(requireDevice, user)
        a      == user.id
        known  == requireDevice /\ user.present /\ a \in UserIds
        change == known /\ IsChange(a, f)
        n      == IF change THEN device[a].changes + 1 ELSE 0
    IN  /\ change => device[a].changes < MaxChanges
        /\ guard' = [required |-> requireDevice, account |-> a, device |-> f,
                     change |-> n, result |-> result]
        /\ device' =
              IF ~known THEN device
              ELSE [device EXCEPT ![a] =
                      [inUse     |-> IF result = "Allow" THEN f ELSE @.inUse,
                       changes   |-> IF change THEN n ELSE @.changes,
                       requested |-> IF change /\ n >= LOCK_ATTEMPT
                                     THEN f ELSE @.requested]]
        /\ UNCHANGED <<now, ticks, authVars, rateVars, regVars>>

----------------------------------------------------------------------------
----------------------------------------------------------------------------
(* Claims about the lockout machine, checked under SpecLogin *)

(* C1: a login with the right password whose account row, as the login    *)
(* read it, carries a lockedUntil that is still in the future is rejected  *)
(* with "Account is locked", returns no token and persists none            *)
C1_LockedRejectsRightPassword ==
    [][\A p \in Procs :
         (/\ pc[p] = "login_check" /\ pc'[p] # "login_check"
          /\ req[p].inst.lockedUntil # Null
          /\ now < req[p].inst.lockedUntil)
         => /\ pc'[p] = "idle"
            /\ last'.outcome = "AccountLocked"
            /\ last'.token = NoToken
            /\ refreshTokens' = refreshTokens
            /\ users' = users]_vars

C1_Witness ==
    /\ last.outcome = "AccountLocked"
    /\ users["u1"].lockedUntil # Null
    /\ now < users["u1"].lockedUntil

(* C2: counting the failed logins of an account from its last reset, the   *)
(* 1st to 4th are answered "Invalid email or password" and leave the lock  *)
(* alone; the 5th is answered "Account locked" and sets lockedUntil to the *)
(* current time plus 30 minutes                                            *)
C2_FifthFailureLocks ==
    [][\A p \in Procs :
         LET u == req[p].uid IN
         /\ (pc[p] = "login_increment" /\ pc'[p] # "login_increment" /\ streak[u] < 4)
            => /\ pc'[p] = "idle"
               /\ last'.outcome = "InvalidCredentials"
               /\ last'.n = streak[u] + 1
               /\ users'[u].lockedUntil = users[u].lockedUntil
         /\ (pc[p] = "login_increment" /\ pc'[p] # "login_increment" /\ streak[u] = 4)
            => /\ pc'[p] = "login_lock"
               /\ req'[p].n = 5
         /\ (pc[p] = "login_lock" /\ pc'[p] # "login_lock" /\ req[p].n = 5)
            => /\ pc'[p] = "idle"
               /\ last'.outcome = "AccountLockedNow"
               /\ last'.n = 5
               /\ users'[u].lockedUntil = now + 30 * 60]_vars

C2_Witness ==
    /\ last.outcome = "AccountLockedNow"
    /\ last.n = 5
    /\ users["u1"].lockedUntil = now + 30 * 60

(* C3: a login returns a token pair only after its reset, and the reset    *)
(* leaves failedLoginAttempts = 0 and lockedUntil = null whatever the row  *)
(* held before                                                             *)
C3_SuccessResets ==
    [][/\ \A p \in Procs :
            (pc[p] = "login_check" /\ pc'[p] = "login_store")
            => /\ users'[req[p].uid].failedLoginAttempts = 0
               /\ users'[req[p].uid].lockedUntil = Null
       /\ (last'.outcome = "Tokens" /\ last' # last)
            => \E p \in Procs : pc[p] = "login_store" /\ pc'[p] = "idle"]_vars

(* a login in flight just after its reset, that had read a lock *)
C3_Witness ==
    \E p \in Procs :
        /\ pc[p] = "login_store"
        /\ req[p].inst.lockedUntil # Null
        /\ users[req[p].uid].lockedUntil = Null
        /\ users[req[p].uid].failedLoginAttempts = 0

(* C10: while lockedUntil of an account is not set, at most 5 password     *)
(* comparisons have been evaluated as failed since its last reset          *)
C10_BurstWithinThreshold ==
    \A u \in UserIds : users[u].lockedUntil = Null => guesses[u] <= 5

----------------------------------------------------------------------------
(* Claims about the refresh-token table, checked under SpecToken *)

C7_LoggedOutStaysRejected ==
    [][\A p \in Procs :
         (pc[p] = "idle" /\ pc'[p] = "refresh_user")
         => ~\E i \in RowIds :
               /\ refreshTokens[i].token = req'[p].token
               /\ refreshTokens[i].userId = req'[p].token.sub
               /\ refreshTokens[i].isRevoked
               /\ refreshTokens[i].revokedReason = "logout"]_vars

----------------------------------------------------------------------------
(* Rate-limit claims.  The policy as the claims state it: *)
ClaimedMax(c) ==
    CASE c = "login" -> 5 [] c = "register" -> 3 [] OTHER -> 10

ClaimedWindow(c) ==
    CASE c = "login" -> 5 * 60 [] c = "register" -> 60 * 60 [] OTHER -> 15 * 60

----------------------------------------------------------------------------
(* C11: of the login requests one IP sends within a window, requests 1..5   *)
(* pass the limiter and reach the credential check; the wrong password     *)
(* that is the 5th failure on the account ends in the account-locked        *)
(* error with lockedUntil written; the 6th request, none of the five       *)
(* having succeeded, is answered 429 without the handler running: users    *)
(* and refresh tokens are unchanged.                                        *)
C11_SixthStoppedAtLimiter ==
    [][/\ (verdict' # verdict /\ verdict'.seq <= 5)
           => /\ verdict'.allowed
              /\ pc' # pc \/ last'.outcome = "InvalidCredentials"
       /\ (verdict' # verdict /\ verdict'.seq = 6 /\ verdict'.refunds = 0)
           => /\ ~verdict'.allowed
              /\ last'.outcome = "TooManyRequests"
              /\ pc' = pc
              /\ users' = users
              /\ refreshTokens' = refreshTokens
       /\ (last' # last /\ last'.n = 5)
           => /\ last'.outcome = "AccountLockedNow"
              /\ users'["u1"].lockedUntil = now + LockDuration]_vars

(* six wrong passwords for u1 from the IP within one second: five failures *)
(* counted, the account locked, the sixth request answered 429             *)
C11_Witness ==
    /\ route = "login"
    /\ verdict.seq = 6
    /\ verdict.refunds = 0
    /\ ~verdict.allowed
    /\ verdict.at = win.start
    /\ last.outcome = "TooManyRequests"
    /\ guesses["u1"] = 5
    /\ users["u1"].failedLoginAttempts = 5
    /\ users["u1"].lockedUntil = now + LockDuration

----------------------------------------------------------------------------
(* C12: with two server processes the counter of the (IP, route class) is   *)
(* shared: the requests allowed by both processes together, in windows     *)
(* that are both running and from which no hit was taken back, never       *)
(* exceed the policy maximum.                                              *)
C12_SharedCounter ==
    (/\ route \in Classes
     /\ win.start # Null /\ now < win.start + ClaimedWindow(route)
     /\ peer.win.start # Null /\ now < peer.win.start + ClaimedWindow(route)
     /\ win.refunds = 0 /\ peer.win.refunds = 0)
    => win.allowed + peer.win.allowed <= ClaimedMax(route)

----------------------------------------------------------------------------
----------------------------------------------------------------------------
(* C14: the global limiter neither counts nor denies a GET request, also   *)
(* while the IP is over the limit; of the other requests of an IP it lets  *)
(* requests 1..100 of a window through and denies the 101st.               *)
C14_GetExempt ==
    [][(\/ verdict' # verdict
        \/ \E s \in Slots : rl[s] = "idle" /\ rl'[s] # "idle")
       => /\ verdict'.method = "GET"
             => /\ verdict'.allowed
                /\ \E s \in Slots : rl[s] = "idle" /\ rl'[s] = "handling"
                /\ hits' = hits
                /\ win' = win
          /\ verdict'.method # "GET"
             => /\ hits'.totalHits = (IF Expired THEN 0 ELSE hits.totalHits) + 1
                /\ verdict'.seq <= 100 => verdict'.allowed
                /\ verdict'.seq = 101 => ~verdict'.allowed]_vars

(* the 101st state-changing request of the window has been denied, and a   *)
(* GET request of the same IP is let through                               *)
C14_Witness ==
    /\ route = "global"
    /\ hits.totalHits = 101
    /\ win.arrivals = 101
    /\ win.allowed = 100
    /\ verdict.method = "GET"
    /\ verdict.allowed
    /\ now < hits.resetTime

----------------------------------------------------------------------------
(* C15: a login for an email that no account has, and a login with a wrong *)
(* password for an account that is not locked and whose failure leaves the *)
(* counter below the threshold, are answered alike: status 401 with the    *)
(* message "Invalid email or password".                                    *)
C15_SameAnswer ==
    [][\A p \in Procs :
         LET generic == [status |-> 401, message |-> "Invalid email or password"]
         IN  /\ (pc' = pc /\ last' # last)
                 => Response(last'.outcome) = generic
             /\ (/\ pc[p] = "login_increment"
                 /\ pc'[p] # "login_increment"
                 /\ users'[req[p].uid].failedLoginAttempts < LockThreshold)
                 => /\ pc'[p] = "idle"
                    /\ Response(last'.outcome) = generic]_vars

(* an unknown email has just been answered, and a wrong password for u1,   *)
(* unlocked and with one failure counted, is about to be                   *)
C15_Witness ==
    /\ last.outcome = "InvalidCredentials"
    /\ last.n = 0
    /\ \E p \in Procs : pc[p] = "login_increment" /\ req[p].uid = "u1"
    /\ users["u1"].failedLoginAttempts = 1
    /\ users["u1"].lockedUntil = Null

----------------------------------------------------------------------------
----------------------------------------------------------------------------
(* Claims about the device policy, checked under SpecDevice *)

(* the latest call of the guard was for a request of account a on a route  *)
(* that requires a device                                                  *)
Guarded(a) == guard.required /\ guard.account = a

Paid == {a \in UserIds : Tier(a) = "paid"}

(* C17: for a paid account the validation of a device change answers      *)
(* Allow for changes 1, 2, 4 and 5, Warn for change 3 and                  *)
(* LockedPendingReview for change 6 and every later one (the code has no   *)
(* admin approval that could intervene).                                   *)
C17_Thresholds ==
    \A a \in Paid :
        Guarded(a) /\ guard.change > 0 =>
            guard.result =
                CASE guard.change = WARNING_ATTEMPT -> "Warn"
                  [] guard.change >= LOCK_ATTEMPT   -> "LockedPendingReview"
                  [] guard.change <= MAX_DEVICES_PAID
                       /\ guard.change # WARNING_ATTEMPT -> "Allow"

(* C18: once a paid account is locked pending review, which it is from    *)
(* its sixth device change on, every request of the account to a route     *)
(* that requires a device is denied, whatever device it comes from (the    *)
(* code has no admin review that could lift the lock).                     *)
C18_LockedDeniesAll ==
    \A a \in Paid :
        Guarded(a) /\ device[a].changes >= LOCK_ATTEMPT =>
            guard.result # "Allow"

(* C19: the device that a paid account's sixth or later change asked for  *)
(* is rejected and becomes the account's active device only by an          *)
(* approving admin review; the code has no admin review, so it is never    *)
(* the device in use.                                                      *)
C19_ActiveOnlyByApproval ==
    \A a \in Paid :
        device[a].changes >= LOCK_ATTEMPT =>
            device[a].inUse # device[a].requested

FreeTier == {a \in UserIds : Tier(a) = "free"}

----------------------------------------------------------------------------
(* Claims about the lockout machine, second part *)

(* C21: a login whose account row, as the login read it, carries a        *)
(* lockedUntil that is still in the future is answered with an             *)
(* account-locked error whatever the password, and none of its steps       *)
(* changes failedLoginAttempts or lockedUntil                              *)
C21_LockedLeavesRowAlone ==
    [][\A p \in Procs :
         LET u == req[p].uid IN
         (/\ pc[p] # "idle" /\ pc'[p] # pc[p]
          /\ IsLocked(req[p].inst, now))
         => /\ users'[u].failedLoginAttempts = users[u].failedLoginAttempts
            /\ users'[u].lockedUntil = users[u].lockedUntil
            /\ pc'[p] = "idle"
            /\ last'.outcome \in {"AccountLocked", "AccountLockedNow"}]_vars

(* C22: in every state the lockedUntil of an account is set only if its   *)
(* failedLoginAttempts is at least 5 and the time is before lockedUntil    *)
C22_LockOnlyWhileLocked ==
    \A u \in UserIds :
        users[u].lockedUntil # Null =>
            /\ users[u].failedLoginAttempts >= LockThreshold
            /\ now < users[u].lockedUntil

(* C23: once the lock time T, written when the account was locked, has   *)
(* elapsed, a login of an active account with the right password finds     *)
(* the account unlocked whatever logins were made during the lock, passes   *)
(* the checks and returns tokens                                           *)
C23_UnlocksAtLockTime ==
    [][\A p \in Procs :
         LET u == req'[p].uid IN
         /\ (/\ pc[p] = "idle" /\ pc'[p] = "login_check"
             /\ lockTime[u] # Null /\ now >= lockTime[u]
             /\ users[u].isActive)
            => ~IsLocked(req'[p].inst, now)
         /\ (/\ pc[p] = "login_check" /\ pc'[p] # "login_check"
             /\ ~IsLocked(req[p].inst, now) /\ req[p].inst.isActive)
            => pc'[p] = "login_store"
         /\ (pc[p] = "login_store" /\ pc'[p] # "login_store")
            => /\ last'.outcome = "Tokens"
               /\ last'.token \in {refreshTokens'[i].token :
                                      i \in 1..Len(refreshTokens')}]_vars

----------------------------------------------------------------------------
(* Claims about register and the refresh-token table, checked under        *)
(* SpecRegister and SpecToken                                              *)

(* the rows that hold token tok for account uid, not revoked and expiring  *)
(* 7 days after the token was issued                                       *)
LiveRows(rows, tok, uid) ==
    {i \in 1..Len(rows) : /\ rows[i].token = tok
                          /\ rows[i].userId = uid
                          /\ rows[i].isRevoked = FALSE
                          /\ rows[i].expiresAt = tok.iat + RefreshExpiry}

(* C24: when register or login returns a refresh token, exactly one row   *)
(* of the account holds it, not revoked, with expiresAt = issue time + 7   *)
(* days                                                                    *)
C24_ReturnedTokenHasOneRow ==
    [][\A p \in Procs :
         (/\ pc[p] \in {"login_store", "register_store"}
          /\ pc'[p] = "idle")
         => /\ last'.outcome = "Tokens"
            /\ Cardinality(LiveRows(refreshTokens', last'.token,
                                     req[p].uid)) = 1]_vars

(* C25: refresh-token rows are append-only: no step removes a row or      *)
(* changes its owner or token, a revoked row stays revoked and its         *)
(* revokedReason stays what the first revocation wrote                     *)
C25_AppendOnly ==
    [][/\ Len(refreshTokens') >= Len(refreshTokens)
       /\ \A i \in RowIds :
            /\ refreshTokens'[i].userId = refreshTokens[i].userId
            /\ refreshTokens'[i].token = refreshTokens[i].token
            /\ refreshTokens[i].isRevoked
                 => /\ refreshTokens'[i].isRevoked
                    /\ refreshTokens'[i].revokedReason
                          = refreshTokens[i].revokedReason]_vars

(* a logout has found its token's row revoked already and has left it      *)
(* revoked with the reason of the first logout                             *)
C25_Witness ==
    /\ last.outcome = "LoggedOut"
    /\ last.n > 0
    /\ \E i \in RowIds : /\ refreshTokens[i].userId = last.uid
                         /\ refreshTokens[i].isRevoked
                         /\ refreshTokens[i].revokedReason = "logout"

(* C26: no two rows of the refresh-token table hold the same token value *)
C26_TokensDistinct ==
    \A i, j \in RowIds :
        i # j => refreshTokens[i].token # refreshTokens[j].token

(* the rows of the users table that have the email: the row there from    *)
(* the start, if any, and the rows inserted since                          *)
RowsWithEmail(e) ==
    (IF e \in UserIds THEN {e} ELSE {})
        \cup {accounts[i].id : i \in {j \in 1..Len(accounts) :
                                          accounts[j].email = e}}

(* C27: in every state at most one account has a given email, whatever    *)
(* register and create calls overlap, and at most one register call for    *)
(* the email has got as far as a token pair                                *)
C27_EmailUnique ==
    \A e \in NewEmails \cup UserIds :
        /\ Cardinality(RowsWithEmail(e)) <= 1
        /\ e \in NewEmails =>
              Cardinality({k \in RowIds :
                             refreshTokens[k].userId \in RowsWithEmail(e)}) <= 1

(* two calls for one new email have both passed their look-ups: one has   *)
(* inserted the account and returned tokens, the INSERT of the other has   *)
(* failed on the unique index                                              *)
C27_Witness ==
    /\ last.outcome = "UniqueConstraintError"
    /\ Len(accounts) = 1
    /\ \E k \in RowIds : refreshTokens[k].userId = accounts[1].id

----------------------------------------------------------------------------
(* Claims about failing stores, checked under SpecFail *)

(* C28: a request whose rate-limit check met a failing store is not let   *)
(* through to a handler, and a login or refresh one of whose queries       *)
(* failed ends in an error and returns no token                            *)
C28_FailClosed ==
    [][/\ (verdict'.error /\ verdict' # verdict)
          => ~verdict'.allowed /\ rl' = rl
       /\ (last'.failed /\ (last' # last \/ pc' # pc))
          => /\ last'.outcome \notin {"Tokens", "AccessToken"}
             /\ last'.token = NoToken
             /\ refreshTokens' = refreshTokens]_vars

(* the store of the limiter has failed on the latest arrival, and a        *)
(* refresh with a stored token has ended on a failed query                 *)
C28_Witness ==
    /\ verdict.error
    /\ last.failed
    /\ last.outcome = "InvalidRefreshToken"
    /\ refreshTokens # <<>>

----------------------------------------------------------------------------
(* Claims about the device policy, second part *)

(* the policy state an account is in, as its guarded requests meet it: the *)
(* guard keeps no state, its answer is all there is                        *)
PolicyState == IF guard.result = "Allow" THEN "Unrestricted"
                                         ELSE "LockedPendingReview"

(* C29: a paid account is Unrestricted exactly when its change counter is *)
(* at most 5 and LockedPendingReview exactly when it is at least 6         *)
C29_StateFollowsCounter ==
    \A a \in Paid :
        Guarded(a) =>
            /\ PolicyState = "Unrestricted"
                  <=> device[a].changes <= MAX_DEVICES_PAID
            /\ PolicyState = "LockedPendingReview"
                  <=> device[a].changes >= LOCK_ATTEMPT

(* C30: an account has one device in use at a time, and a change that     *)
(* brings a paid account's counter to 6 or more is rejected: it leaves the *)
(* device that was active before as the active one                         *)
C30_RejectedChangeKeepsDevice ==
    [][\A a \in Paid :
         (/\ guard' # guard
          /\ guard'.required /\ guard'.account = a
          /\ guard'.change >= LOCK_ATTEMPT)
         => /\ device'[a].inUse = device[a].inUse
            /\ device'[a].inUse # guard'.device]_vars

C33_ConcurrentChanges ==
    [][\A a \in Paid :
         (/\ Guarded(a) /\ guard.change = MAX_DEVICES_PAID + 1
          /\ guard'.required /\ guard'.account = a /\ guard'.change > 0)
         => /\ guard'.change = guard.change + 1
            /\ device'[a].changes = MAX_DEVICES_PAID + 2
            /\ ~(guard.result = "Allow" /\ guard'.result = "Allow")]_vars

----------------------------------------------------------------------------
(* Claims about the lockout machine, third part *)

(* C34: when the row of an account carries a lock that has expired, so    *)
(* that no successful login has reset the row since the lock was written,  *)
(* and no login with the right password is under way, failedLoginAttempts  *)
(* is still at least 5 and one more login with a wrong password goes on to *)
(* write a new lock of 30 minutes and is answered with the account-locked  *)
(* error                                                                   *)
C34_ExpiredLockRelocks ==
    [][\A p \in Procs :
         LET u == req[p].uid IN
         /\ (/\ pc[p] = "login_increment" /\ pc'[p] # "login_increment"
             /\ users[u].lockedUntil # Null /\ users[u].lockedUntil <= now
             /\ \A q \in Procs : pc[q] \notin {"login_check", "login_store"})
            => /\ users[u].failedLoginAttempts >= LockThreshold
               /\ pc'[p] = "login_lock"
         /\ (pc[p] = "login_lock" /\ pc'[p] # "login_lock")
            => /\ users'[u].lockedUntil = now + LockDuration
               /\ last'.outcome = "AccountLockedNow"]_vars

(* C35: failedLoginAttempts is never negative, each login with a wrong    *)
(* password raises the stored value by exactly 1, also when logins         *)
(* overlap, and the stored value is the number of wrong-password logins    *)
(* counted since the last reset by a successful login                      *)
C35_CountsEveryFailure ==
    [][/\ \A u \in UserIds :
            /\ users'[u].failedLoginAttempts >= 0
            /\ users'[u].failedLoginAttempts = streak'[u]
       /\ \A p \in Procs :
            (pc[p] = "login_increment" /\ pc'[p] # "login_increment")
            => users'[req[p].uid].failedLoginAttempts
                  = users[req[p].uid].failedLoginAttempts + 1]_vars

(* a login with a wrong password is about to increment a row that another  *)
(* login has incremented since this one read it                            *)
C35_Witness ==
    \E p \in Procs :
        /\ pc[p] = "login_increment"
        /\ users[req[p].uid].failedLoginAttempts > req[p].counter
        /\ users[req[p].uid].failedLoginAttempts = streak[req[p].uid]
        /\ streak[req[p].uid] >= 2

----------------------------------------------------------------------------
(* Claims about logout and refresh, checked under SpecSession *)

(* C36: logout(userId, token) changes only rows whose userId is the        *)
(* caller's id and whose token is the presented one, so it revokes no      *)
(* token of another account; with a token that no row of the caller holds  *)
(* it changes nothing; and it completes without an error either way        *)
C36_LogoutOwnRowsOnly ==
    [][\A p \in Procs, uid \in UserIds, tok \in Presented :
         (last'.outcome = "LoggedOut" /\ last'.uid = uid /\ pc' = pc
          /\ Logout(p, uid, tok)) =>
            /\ Len(refreshTokens') = Len(refreshTokens)
            /\ \A i \in RowIds :
                  refreshTokens'[i] # refreshTokens[i] =>
                     /\ refreshTokens[i].userId = uid
                     /\ refreshTokens[i].token = tok
            /\ (\A i \in RowIds : ~(/\ refreshTokens[i].userId = uid
                                     /\ refreshTokens[i].token = tok))
                  => refreshTokens' = refreshTokens
            /\ last'.failed = FALSE]_vars

(* a logout of u2 has completed, having revoked nothing, while u1 holds a  *)
(* token that is not revoked: whatever token the logout presented, u1's,   *)
(* a stray or a garbled one, the rows of u1 are as they were               *)
C36_Witness ==
    /\ last.outcome = "LoggedOut"
    /\ last.uid = "u2"
    /\ \E i \in RowIds : /\ refreshTokens[i].userId = "u1"
                          /\ ~refreshTokens[i].isRevoked
    /\ \A i \in RowIds : refreshTokens[i].userId = "u2" => refreshTokens[i].isRevoked

(* a row holds the token for the token's subject, is not revoked and       *)
(* expires in the future                                                   *)
LiveRow(tok) ==
    \E i \in RowIds : /\ refreshTokens[i].token = tok
                      /\ refreshTokens[i].userId = tok.sub
                      /\ ~refreshTokens[i].isRevoked
                      /\ now < refreshTokens[i].expiresAt

(* C37: a refresh goes on to return a new access token exactly when the    *)
(* presented token verifies and a row with that token, the token's subject *)
(* as userId, isRevoked false and expiresAt in the future exists (the user *)
(* of such a row exists); once past that test it returns the access token  *)
(* whatever isActive and lockedUntil of the account are                    *)
C37_RefreshIffLiveRow ==
    [][\A p \in Procs :
         /\ \A tok \in Presented :
               (/\ pc[p] = "idle"
                /\ pc'[p] = "refresh_user" \/ last'.outcome = "InvalidRefreshToken"
                /\ RefreshFind(p, tok))
               => (pc'[p] = "refresh_user"
                     <=> VerifyRefresh(tok, now) /\ LiveRow(tok))
         /\ (pc[p] = "refresh_user" /\ pc'[p] # "refresh_user")
               => /\ last'.outcome = "AccessToken"
                  /\ last'.uid = req[p].uid
                  /\ last'.uid \in UserIds]_vars

(* an account that is disabled and locked has been returned an access      *)
(* token for its refresh token                                             *)
C37_Witness ==
    /\ last.outcome = "AccessToken"
    /\ last.uid = "u1"
    /\ ~users["u1"].isActive
    /\ IsLocked(users["u1"], now)

(* C39: no refresh-token row ever holds an access token, and a refresh     *)
(* that presents an access token issued by login, register or refresh is   *)
(* rejected: it returns no token and writes nothing                        *)
C39_AccessTokenRejected ==
    [][/\ \A i \in 1..Len(refreshTokens') :
            refreshTokens'[i].token.type = "refresh"
       /\ \A p \in Procs, tok \in AccessTokens :
            (/\ pc[p] = "idle"
             /\ pc'[p] = "refresh_user" \/ last'.outcome = "InvalidRefreshToken"
             /\ RefreshFind(p, tok))
            => /\ pc'[p] = "idle"
               /\ last'.outcome = "InvalidRefreshToken"
               /\ last'.token = NoToken
               /\ UNCHANGED <<users, refreshTokens>>]_vars

(* a refresh has been rejected although its token verified and every row   *)
(* of the account is neither revoked nor expired: the token presented was  *)
(* no refresh token of the account but one of its access tokens            *)
C39_Witness ==
    /\ last.outcome = "InvalidRefreshToken"
    /\ last.uid = "u1"
    /\ RowIds # {}
    /\ \A i \in RowIds : /\ ~refreshTokens[i].isRevoked
                          /\ now < refreshTokens[i].expiresAt
    /\ Quiet

----------------------------------------------------------------------------
(* Claims about register, checked under SpecSignup *)

(* C38: a register call for an email that an account has already, at its   *)
(* own look-up or at the look-up of UsersService.create, ends there with   *)
(* the conflict error and leaves the state as it was: no account is        *)
(* created or changed and no refresh-token row is stored                   *)
C38_TakenEmailConflict ==
    [][\A p \in Procs :
         /\ \A e \in NewEmails \cup UserIds :
               (pc[p] = "idle" /\ RowsWithEmail(e) # {} /\ RegisterFind(p, e))
               => /\ pc'[p] = "idle"
                  /\ last'.outcome = "Conflict"
                  /\ UNCHANGED <<users, accounts, refreshTokens>>
         /\ (/\ pc[p] = "create_find" /\ pc'[p] # "create_find"
             /\ req[p].op = "register" /\ RowsWithEmail(req[p].uid) # {})
               => /\ pc'[p] = "idle"
                  /\ last'.outcome = "Conflict"
                  /\ UNCHANGED <<users, accounts, refreshTokens>>]_vars

(* a register for a new email has created the account and stored its       *)
(* token, and a later register call has ended with the conflict error      *)
C38_Witness ==
    /\ last.outcome = "Conflict"
    /\ Len(accounts) = 1
    /\ Len(refreshTokens) = 1
    /\ refreshTokens[1].userId = accounts[1].id
    /\ \A p \in Procs : pc[p] = "idle"

----------------------------------------------------------------------------
(* the lockout machine: logins with any password *)
NextLogin ==
    \/ Tick({LockDuration})
    \/ \E p \in Procs, e \in {"u1", "nobody"}, ok \in BOOLEAN : LoginFind(p, e, ok)
    \/ \E p \in Procs : LoginIncrement(p)
    \/ \E p \in Procs : LoginLock(p)
    \/ \E p \in Procs : LoginCheck(p)
    \/ \E p \in Procs : LoginStore(p)

SpecLogin == Init /\ [][NextLogin]_vars

(* the refresh-token table: logins that succeed, refresh and logout *)
NextToken ==
    \/ Tick({1, RefreshExpiry})
    \/ \E p \in Procs, e \in UserIds : LoginFind(p, e, TRUE)
    \/ \E p \in Procs : LoginCheck(p)
    \/ \E p \in Procs : LoginStore(p)
    \/ \E p \in Procs, tok \in Presentable : RefreshFind(p, tok)
    \/ \E p \in Procs : RefreshUser(p)
    \/ \E p \in Procs, u \in UserIds, tok \in Presentable : Logout(p, u, tok)

SpecToken == Init /\ [][NextToken]_vars

(* One client IP calling one of the rate-limited routes *)
InitRoute == InitAuth /\ InitDevice /\ \E c \in Classes : InitRate(c)

NextRate ==
    \/ Tick({1, Limiter(route).windowMs})
    \/ \E s \in Slots : Arrive(s)
    \/ \E s \in Slots, ok \in BOOLEAN : Respond(s, ok)

SpecRate == InitRoute /\ [][NextRate]_vars

(* one client IP posting to /auth/login *)
InitPostLogin == InitAuth /\ InitRate("login") /\ InitDevice

NextPostLogin ==
    \/ Tick({LockDuration})
    \/ \E p \in Procs, e \in {"u1", "nobody"}, ok \in BOOLEAN : PostLogin(p, e, ok)
    \/ \E p \in Procs : PostLoginIncrement(p)
    \/ \E p \in Procs : PostLoginLock(p)
    \/ \E p \in Procs : PostLoginCheck(p)
    \/ \E p \in Procs : PostLoginStore(p)

SpecPostLogin == InitPostLogin /\ [][NextPostLogin]_vars

(* one client IP calling one rate-limited route served by two processes *)
NextInstances ==
    \/ Tick({1, Limiter(route).windowMs})
    \/ \E s \in Slots : Arrive(s)
    \/ \E s \in Slots, ok \in BOOLEAN : Respond(s, ok)
    \/ Balance

SpecInstances == InitRoute /\ [][NextInstances]_vars

(* one client IP sending requests of any method to the application *)
NextGlobal ==
    \/ Tick({1, globalLimiter.windowMs})
    \/ \E s \in Slots, m \in Methods : GlobalArrive(s, m)
    \/ \E s \in Slots, ok \in BOOLEAN : Respond(s, ok)

InitGlobal == InitAuth /\ InitRate("global") /\ InitDevice

SpecGlobal == InitGlobal /\ [][NextGlobal]_vars

(* logins with any password for an account that may have been disabled *)
NextDisabled ==
    \/ Tick({LockDuration})
    \/ \E p \in Procs, ok \in BOOLEAN : LoginFind(p, "u2", ok)
    \/ \E p \in Procs : LoginIncrement(p)
    \/ \E p \in Procs : LoginLock(p)
    \/ \E p \in Procs : LoginCheck(p)
    \/ \E p \in Procs : LoginStore(p)

SpecDisabled == Init /\ [][NextDisabled]_vars

(* requests of two accounts, from any device, to handlers behind DeviceGuard *)
NextDevice ==
    \E rd \in BOOLEAN, user \in RequestUsers, f \in Fingerprints :
        CanActivate(rd, user, f)

SpecDevice == Init /\ [][NextDevice]_vars

(* logins of u1 with any password while the clock moves within a lock *)
NextUnlock ==
    \/ Advance({1, LockDuration - 1}, MaxTicks + 1)
    \/ \E p \in Procs, ok \in BOOLEAN : LoginFind(p, "u1", ok)
    \/ \E p \in Procs : LoginIncrement(p)
    \/ \E p \in Procs : LoginLock(p)
    \/ \E p \in Procs : LoginCheck(p)
    \/ \E p \in Procs : LoginStore(p)

SpecUnlock == Init /\ [][NextUnlock]_vars

(* register and POST /users with a new or a taken email, and logins of u1 *)
NextRegister ==
    \/ Tick({1})
    \/ \E p \in Procs, e \in NewEmails \cup {"u1"} : RegisterFind(p, e)
    \/ \E p \in Procs, e \in NewEmails \cup {"u1"} : UsersCreate(p, e)
    \/ \E p \in Procs : CreateFind(p)
    \/ \E p \in Procs : CreateInsert(p)
    \/ \E p \in Procs : RegisterStore(p)
    \/ \E p \in Procs : LoginFind(p, "u1", TRUE)
    \/ \E p \in Procs : LoginCheck(p)
    \/ \E p \in Procs : LoginStore(p)

SpecRegister == Init /\ [][NextRegister]_vars

(* a client of the register route and calls of login and refresh, with     *)
(* stores that may fail                                                    *)
InitFail == InitAuth /\ InitRate("register") /\ InitDevice

NextFail ==
    \/ \E s \in Slots : Arrive(s)
    \/ \E s \in Slots : ArriveFails(s)
    \/ \E s \in Slots, ok \in BOOLEAN : Respond(s, ok)
    \/ \E p \in Procs : LoginFind(p, "u1", TRUE)
    \/ \E p \in Procs : LoginCheck(p)
    \/ \E p \in Procs : LoginStore(p)
    \/ \E p \in Procs, tok \in Presentable : RefreshFind(p, tok)
    \/ \E p \in Procs : RefreshUser(p)
    \/ \E p \in Procs, op \in {"login", "refresh"} : QueryFails(p, op)

SpecFail == InitFail /\ [][NextFail]_vars

(* the sessions of u1, with calls made one after another: logins with any *)
(* password, refresh with any token a client may hold, logout by either    *)
(* account, and the account being disabled meanwhile                       *)
InitSession == Init /\ users["u2"].isActive

NextSession ==
    \/ Tick({RefreshExpiry})
    \/ Quiet /\ \E p \in Procs, ok \in BOOLEAN : LoginFind(p, "u1", ok)
    \/ \E p \in Procs : LoginIncrement(p)
    \/ \E p \in Procs : LoginLock(p)
    \/ \E p \in Procs : LoginCheck(p)
    \/ \E p \in Procs : LoginStore(p)
    \/ Quiet /\ \E p \in Procs, tok \in Issued : RefreshFind(p, tok)
    \/ \E p \in Procs : RefreshUser(p)
    \/ Quiet /\ \E p \in Procs, u \in UserIds, tok \in Presented : Logout(p, u, tok)
    \/ Deactivate("u1")

SpecSession == InitSession /\ [][NextSession]_vars

(* register calls with a new or a taken email *)
NextSignup ==
    \/ Tick({1})
    \/ \E p \in Procs, e \in NewEmails \cup UserIds : RegisterFind(p, e)
    \/ \E p \in Procs : CreateFind(p)
    \/ \E p \in Procs : CreateInsert(p)
    \/ \E p \in Procs : RegisterStore(p)

SpecSignup == Init /\ [][NextSignup]_vars

====
